---- MODULE Spec2Model ----
(***************************************************************************)
(* Model of PDFCompressor (src/src/compressor.py), calculate_savings       *)
(* (src/src/utils.py) and the batch driver's _process_single_file          *)
(* (src/pdf-compressor/main.py).  One compressor instance is constructed   *)
(* (Init), and its caller runs compress(input_path, output_path) any       *)
(* number of times.  compress() is modelled statement block by statement   *)
(* block; the variable pc is the position inside compress().  In SpecBatch *)
(* the caller is the batch driver, and the variable step is its position   *)
(* inside _process_single_file.  In SpecUnits one method of the compressor *)
(* (_analyze_pdf, _check_available_tools, _compress_with_qpdf) is run on   *)
(* its own on an input drawn in the initial state.                         *)
(*                                                                         *)
(* Sizes are byte counts.  percent_saved and compression_ratio are floats  *)
(* in the source; here they are exact fractions <<num, den>> in lowest     *)
(* terms (den > 0), and float('inf') is the pair <<1, 0>>.  The log-only   *)
(* field size_reduction of calculate_savings is left out.  Strings that    *)
(* the source formats (messages, errors) are tuples of their parts.        *)
(***************************************************************************)
EXTENDS Integers, Sequences, FiniteSets, TLC

VARIABLES
    available_tools,       \* self.available_tools
    compression_settings,  \* self.compression_settings
    config,                \* self.config: the three limits compress() reads
    input_file,            \* the file at input_path
    output_file,           \* the file at output_path
    pc,                    \* position inside compress()
    original_size,         \* local of compress()
    compression_method,    \* local of compress()
    analysis,              \* the PdfAnalysis of this call
    parsed_by,             \* which parser produced it, or how analysing ended
    apply_result,          \* local `result` of compress()
    result,                \* the value compress() returned
    attempts,              \* backends invoked in this call, in order
    input_before,          \* the file at input_path when the call began
    output_before,         \* the file at output_path when the call began
    step,                  \* position inside _process_single_file
    file_index,            \* which file of the list is being processed
    safety,                \* config: safety.verify_compression, safety.create_backup
    remote,                \* the storage: original, backup and target of this file
    stats,                 \* self.stats of the batch driver
    error,                 \* the exception _process_single_file is handling
    verified,              \* what verify_compressed_file returned for this file
    unit,                  \* which method is run on its own, and how far it is
    document,              \* the PDF document given to _analyze_pdf
    probes,                \* the outcomes of `gs --version` and `qpdf --version`
    tool_run               \* the outcome of the qpdf process

compressor_vars ==
    <<available_tools, compression_settings, config, input_file,
      output_file, pc, original_size, compression_method, analysis,
      parsed_by, apply_result, result, attempts, input_before, output_before>>

driver_vars == <<step, file_index, safety, remote, stats, error, verified>>

unit_vars == <<unit, document, probes, tool_run>>

vars == <<compressor_vars, driver_vars, unit_vars>>

(***************************************************************************)
(* Bounds of the model.                                                    *)
(***************************************************************************)
MaxPages == 6
MaxFiles == 2

KiB == 1024
MiB == 1024 * 1024

Methods == {"ghostscript", "qpdf", "pikepdf", "pypdf"}

None == "None"

\* the None of the field `error`, whose other values are tuples of parts
NoError == <<>>

NoMethod == "no_method"
\* no analysis has been made: the empty dict
NoAnalysis == <<>>
NotParsed == "not_parsed"

INPUT_PATH == "input_path"
OUTPUT_PATH == "output_path"

(***************************************************************************)
(* Files.  A path holds no file, or a file with a content tag and a size.  *)
(* The content tag "original" is the content of the input PDF.             *)
(***************************************************************************)
NoFile == [exists |-> FALSE, content |-> "absent", size |-> 0]

File(content, size) == [exists |-> TRUE, content |-> content, size |-> size]

\* copy2 with its arguments swapped: the copy goes from dst onto src.
copy2_swapped(src_file, dst_file) == [src |-> dst_file, dst |-> dst_file]

\* shutil.copy2(src, dst): the two files afterwards; dst is a copy of src.
copy2(src_file, dst_file) == [src |-> src_file, dst |-> src_file]

(***************************************************************************)
(* Exact fractions.                                                        *)
(***************************************************************************)
Abs(n) == IF n < 0 THEN 0 - n ELSE n

RECURSIVE GCD(_, _)
GCD(a, b) == IF b = 0 THEN a ELSE GCD(b, a % b)

Frac(num, den) ==
    LET g == GCD(Abs(num), den)
    IN  <<num \div g, den \div g>>

\* the comparison of line 128 not strict
FracLess_or_equal(f, n) == f[1] <= n * f[2]

\* the comparison of line 128 inverted
FracLess_inverted(f, n) == f[1] > n * f[2]

FracLess(f, n) == f[1] < n * f[2]

Zero == Frac(0, 1)

\* float('inf')
Inf == <<1, 0>>

(***************************************************************************)
(* utils.calculate_savings                                                 *)
(***************************************************************************)
\* percent_saved taken as the share that is left, not the share saved
calculate_savings_share_left(original, compressed) ==
    IF original = 0
    THEN [bytes_saved |-> 0, percent_saved |-> Zero, compression_ratio |-> Zero]
    ELSE [bytes_saved |-> original - compressed,
          percent_saved |-> Frac(compressed * 100, original),
          compression_ratio |-> IF compressed > 0
                                THEN Frac(original, compressed)
                                ELSE Inf]

\* the ratio for an empty output given as 0, not as infinity
calculate_savings_no_inf(original, compressed) ==
    IF original = 0
    THEN [bytes_saved |-> 0, percent_saved |-> Zero, compression_ratio |-> Zero]
    ELSE [bytes_saved |-> original - compressed,
          percent_saved |-> Frac((original - compressed) * 100, original),
          compression_ratio |-> IF compressed > 0
                                THEN Frac(original, compressed)
                                ELSE Zero]

calculate_savings(original, compressed) ==
    IF original = 0
    THEN [bytes_saved |-> 0, percent_saved |-> Zero, compression_ratio |-> Zero]
    ELSE [bytes_saved |-> original - compressed,
          percent_saved |-> Frac((original - compressed) * 100, original),
          compression_ratio |-> IF compressed > 0
                                THEN Frac(original, compressed)
                                ELSE Inf]

(***************************************************************************)
(* PDFCompressor._success_result and _error_result                         *)
(***************************************************************************)
success_result(input_path, output_path, size_before, size_after, message) ==
    LET savings == calculate_savings(size_before, size_after)
    IN  [success |-> TRUE,
         input_path |-> input_path,
         output_path |-> output_path,
         size_before |-> size_before,
         size_after |-> size_after,
         bytes_saved |-> savings.bytes_saved,
         percent_saved |-> savings.percent_saved,
         compression_ratio |-> savings.compression_ratio,
         message |-> message,
         error |-> NoError]

error_result(error_message) ==
    [success |-> FALSE,
     input_path |-> None,
     output_path |-> None,
     size_before |-> 0,
     size_after |-> 0,
     bytes_saved |-> 0,
     percent_saved |-> Zero,
     compression_ratio |-> Zero,
     message |-> <<>>,
     error |-> error_message]

\* The dict a backend adapter returns when it succeeded.
backend_success(method) == [success |-> TRUE, method |-> method, error |-> NoError]

(***************************************************************************)
(* PDF documents as the analyzer sees them.  A page has a /Resources       *)
(* /XObject dictionary or not, the /Subtype values of its XObjects, and an *)
(* /Annots entry or not.  pikepdf_raises_at = 0: pikepdf.open raises;      *)
(* k >= 1: pikepdf raises while reading the XObjects of page k (if that    *)
(* page is inspected); NoRaise: pikepdf reads the document without error.  *)
(***************************************************************************)
NoRaise == MaxPages + 1

Subtypes == {"Image", "Form"}

Page(has_xobject, subtypes, annots) ==
    [has_xobject |-> has_xobject, subtypes |-> subtypes, annots |-> annots]

PlainPage == Page(FALSE, {}, FALSE)

Min(a, b) == IF a < b THEN a ELSE b

(***************************************************************************)
(* PDFCompressor._analyze_pdf                                              *)
(***************************************************************************)
analyze_pdf(doc, file_size) ==
    LET n == Len(doc.pages)
        inspected == 1..Min(5, n)
        opened == doc.pikepdf_raises_at # 0
        raised == doc.pikepdf_raises_at = 0 \/ doc.pikepdf_raises_at \in inspected
        \* pages whose XObjects were read without error
        imaged == IF raised THEN 1..(doc.pikepdf_raises_at - 1) ELSE inspected
        primary ==
            [pages |-> IF opened THEN n ELSE 0,
             has_images |-> \E i \in imaged : doc.pages[i].has_xobject
                                              /\ "Image" \in doc.pages[i].subtypes,
             has_forms |-> ~raised /\ doc.acroform,
             has_annotations |-> \E i \in imaged : doc.pages[i].annots,
             encrypted |-> FALSE,
             file_size |-> file_size]
    IN  IF ~raised THEN primary
        ELSE IF doc.pypdf_opens
             THEN [primary EXCEPT
                     !.pages = n,
                     !.encrypted = doc.encrypted,
                     !.has_images = primary.has_images
                                    \/ \E i \in 1..Min(3, n) : doc.pages[i].has_xobject]
             ELSE primary

\* How the parsing inside _analyze_pdf ended: the primary parser (pikepdf)
\* read the document, or it raised and the secondary parser (pypdf) read
\* it, or both raised.
parsed(doc) ==
    IF ~(doc.pikepdf_raises_at = 0
         \/ doc.pikepdf_raises_at \in 1..Min(5, Len(doc.pages)))
    THEN "primary"
    ELSE IF doc.pypdf_opens THEN "secondary" ELSE "neither"

(***************************************************************************)
(* PDFCompressor._choose_compression_method.  analysis_raised: the call of *)
(* _analyze_pdf raised (the stat of the input failed).                     *)
(***************************************************************************)
\* the selector with the qpdf rule ahead of the forms/annotations rule
choose_compression_method_qpdf_first(doc, file_size, tools, analysis_raised) ==
    IF analysis_raised THEN "pikepdf"
    ELSE LET a == analyze_pdf(doc, file_size)
         IN  IF file_size > 10 * MiB /\ a.has_images /\ tools["ghostscript"]
             THEN "ghostscript"
             ELSE IF tools["qpdf"] THEN "qpdf"
             ELSE IF a.has_forms \/ a.has_annotations THEN "pikepdf"
             ELSE IF tools["ghostscript"] THEN "ghostscript"
             ELSE "pikepdf"

\* the selector taking a failed analysis for an analysis without findings
choose_compression_method_raise_ignored(doc, file_size, tools, analysis_raised) ==
    IF analysis_raised
    THEN (IF tools["qpdf"] THEN "qpdf"
          ELSE IF tools["ghostscript"] THEN "ghostscript"
          ELSE "pikepdf")
    ELSE LET a == analyze_pdf(doc, file_size)
         IN  IF file_size > 10 * MiB /\ a.has_images /\ tools["ghostscript"]
             THEN "ghostscript"
             ELSE IF a.has_forms \/ a.has_annotations THEN "pikepdf"
             ELSE IF tools["qpdf"] THEN "qpdf"
             ELSE IF tools["ghostscript"] THEN "ghostscript"
             ELSE "pikepdf"

\* the selector falling back on the baseline library
choose_compression_method_pypdf_last(doc, file_size, tools, analysis_raised) ==
    IF analysis_raised THEN "pikepdf"
    ELSE LET a == analyze_pdf(doc, file_size)
         IN  IF file_size > 10 * MiB /\ a.has_images /\ tools["ghostscript"]
             THEN "ghostscript"
             ELSE IF a.has_forms \/ a.has_annotations THEN "pikepdf"
             ELSE IF tools["qpdf"] THEN "qpdf"
             ELSE IF tools["ghostscript"] THEN "ghostscript"
             ELSE "pypdf"

choose_compression_method(doc, file_size, tools, analysis_raised) ==
    IF analysis_raised THEN "pikepdf"
    ELSE LET a == analyze_pdf(doc, file_size)
         IN  IF file_size > 10 * MiB /\ a.has_images /\ tools["ghostscript"]
             THEN "ghostscript"
             ELSE IF a.has_forms \/ a.has_annotations THEN "pikepdf"
             ELSE IF tools["qpdf"] THEN "qpdf"
             ELSE IF tools["ghostscript"] THEN "ghostscript"
             ELSE "pikepdf"

(***************************************************************************)
(* PDFCompressor._check_available_tools.  A probe is the outcome of        *)
(* running `gs --version` or `qpdf --version`: an exit with a return code, *)
(* a timeout (subprocess.TimeoutExpired) or a missing executable           *)
(* (FileNotFoundError).                                                    *)
(***************************************************************************)
ProbeResult(kind, returncode) == [kind |-> kind, returncode |-> returncode]

Probes == {ProbeResult("exit", 0), ProbeResult("exit", 1),
           ProbeResult("timeout", 0), ProbeResult("missing", 0)}

probe_available(probe) == probe.kind = "exit" /\ probe.returncode = 0

check_available_tools(gs_probe, qpdf_probe) ==
    [m \in Methods |->
        CASE m = "ghostscript" -> probe_available(gs_probe)
          [] m = "qpdf" -> probe_available(qpdf_probe)
          [] OTHER -> TRUE]

(***************************************************************************)
(* Outcomes of the things the backend adapters call.                       *)
(*                                                                         *)
(* A run of an external tool (subprocess.run) exits with a return code and *)
(* a stderr text, times out, or fails to start; a library call succeeds or *)
(* raises at open, while compressing a page's content stream, or at save.  *)
(* In each case the tool or library has written nothing, a partial file or *)
(* a complete file of some size to output_path.                            *)
(***************************************************************************)
WARNINGS == "operation succeeded with warnings"

Run(kind, returncode, stderr, written, size) ==
    [kind |-> kind, returncode |-> returncode, stderr |-> stderr,
     written |-> written, size |-> size]

Lib(kind, written, size) == [kind |-> kind, written |-> written, size |-> size]

\* The file at output_path after a tool or library has run.
Written(o, out) ==
    CASE o.written = "nothing" -> out
      [] o.written = "partial" -> File("partial", o.size)
      [] o.written = "complete" -> File("compressed", o.size)

\* What an adapter did: raised or returned `value`, leaving `output`.
Returned(value, output) == [raised |-> FALSE, value |-> value, output |-> output]

Raised(exception, output) == [raised |-> TRUE, value |-> exception, output |-> output]

(***************************************************************************)
(* PDFCompressor._compress_with_ghostscript.  The command line is built    *)
(* outside the try block from compression_settings: with settings that are *)
(* not a dict (a level set to null in the YAML file) the adapter raises    *)
(* before it runs the tool.                                                *)
(***************************************************************************)
compress_with_ghostscript(settings, run, out) ==
    IF settings = None
    THEN Raised("AttributeError", out)
    ELSE CASE run.kind = "exit" ->
                Returned(IF run.returncode = 0
                         THEN backend_success("ghostscript")
                         ELSE error_result(<<"Ghostscript error",
                                             IF run.stderr # "" THEN run.stderr
                                             ELSE ToString(run.returncode)>>),
                         Written(run, out))
           [] run.kind = "timeout" ->
                Returned(error_result(<<"Ghostscript timed out (5 min)">>),
                         Written(run, out))
           [] run.kind = "oserror" ->
                Returned(error_result(<<"Ghostscript launch error", "OSError">>),
                         Written(run, out))

(***************************************************************************)
(* PDFCompressor._compress_with_qpdf                                       *)
(***************************************************************************)
\* the adapter with an error message that leaves out what the tool reported
compress_with_qpdf_no_text(run, out) ==
    CASE run.kind = "exit" ->
            Returned(IF run.returncode = 0
                     THEN backend_success("qpdf")
                     ELSE IF run.returncode = 3 \/ run.stderr = WARNINGS
                     THEN backend_success("qpdf")
                     ELSE error_result(<<"QPDF error">>),
                     Written(run, out))
      [] run.kind = "timeout" ->
            Returned(error_result(<<"QPDF timed out">>), Written(run, out))
      [] run.kind = "oserror" ->
            Returned(error_result(<<"QPDF launch error">>), Written(run, out))

compress_with_qpdf(run, out) ==
    CASE run.kind = "exit" ->
            Returned(IF run.returncode = 0
                     THEN backend_success("qpdf")
                     ELSE IF run.returncode = 3 \/ run.stderr = WARNINGS
                     THEN backend_success("qpdf")
                     ELSE error_result(<<"QPDF error",
                                         IF run.stderr # "" THEN run.stderr
                                         ELSE ToString(run.returncode)>>),
                     Written(run, out))
      [] run.kind = "timeout" ->
            Returned(error_result(<<"QPDF timed out">>), Written(run, out))
      [] run.kind = "oserror" ->
            Returned(error_result(<<"QPDF launch error", "OSError">>),
                     Written(run, out))

(***************************************************************************)
(* PDFCompressor._compress_with_pikepdf and _compress_with_pypdf: the      *)
(* whole body is inside try/except Exception.                              *)
(***************************************************************************)
compress_with_pikepdf(lib, out) ==
    IF lib.kind = "ok"
    THEN Returned(backend_success("pikepdf"), Written(lib, out))
    ELSE Returned(error_result(<<"Pikepdf error", lib.kind>>), Written(lib, out))

compress_with_pypdf(lib, out) ==
    IF lib.kind = "ok"
    THEN Returned(backend_success("pypdf"), Written(lib, out))
    ELSE Returned(error_result(<<"PyPDF error", lib.kind>>), Written(lib, out))

(***************************************************************************)
(* PDFCompressor._apply_compression.  outcome: what the backend dispatched *)
(* to does (a Run for the external tools, a Lib for the libraries);        *)
(* fallback: what the pikepdf call of the except branch does.  `attempts`  *)
(* lists the adapters invoked.                                             *)
(***************************************************************************)
Applied(r, attempted) ==
    [raised |-> r.raised, value |-> r.value, output |-> r.output,
     attempts |-> attempted]

\* the error text a backend gave: the stderr of the tool, the message of
\* the exception of the library, "" when there is none
error_text(o) ==
    IF "stderr" \in DOMAIN o
    THEN (IF o.kind = "exit" THEN o.stderr ELSE IF o.kind = "oserror" THEN "OSError" ELSE "")
    ELSE (IF o.kind = "ok" THEN "" ELSE o.kind)

\* one entry of the log of attempts: the adapter invoked, how it ended and
\* the error text of the backend
Attempt(backend, r, o) ==
    [backend |-> backend,
     outcome |-> IF r.raised THEN "raised"
                 ELSE IF r.value.success THEN "success" ELSE "failed",
     text |-> IF r.raised THEN r.value ELSE error_text(o)]

\* the branches of ghostscript and qpdf leading to each other's adapter
dispatch_crossed(method, tools) ==
    IF method = "ghostscript" /\ tools["ghostscript"] THEN "qpdf"
    ELSE IF method = "qpdf" /\ tools["qpdf"] THEN "ghostscript"
    ELSE IF method = "pikepdf" THEN "pikepdf"
    ELSE "pypdf"

\* the adapter the if/elif chain of lines 235-243 dispatches to
dispatch(method, tools) ==
    IF method = "ghostscript" /\ tools["ghostscript"] THEN "ghostscript"
    ELSE IF method = "qpdf" /\ tools["qpdf"] THEN "qpdf"
    ELSE IF method = "pikepdf" THEN "pikepdf"
    ELSE "pypdf"

\* the except branch running the adapter that raised once more
apply_compression_retry(method, tools, settings, out, outcome, fallback) ==
    LET backend == dispatch(method, tools)
        first ==
            CASE backend = "ghostscript" -> compress_with_ghostscript(settings, outcome, out)
              [] backend = "qpdf" -> compress_with_qpdf(outcome, out)
              [] backend = "pikepdf" -> compress_with_pikepdf(outcome, out)
              [] backend = "pypdf" -> compress_with_pypdf(outcome, out)
    IN  IF ~first.raised
        THEN Applied(first, <<Attempt(backend, first, outcome)>>)
        ELSE Applied(first, <<Attempt(backend, first, outcome),
                              Attempt(backend, first, outcome)>>)

apply_compression(method, tools, settings, out, outcome, fallback) ==
    LET backend == dispatch(method, tools)
        first ==
            CASE backend = "ghostscript" -> compress_with_ghostscript(settings, outcome, out)
              [] backend = "qpdf" -> compress_with_qpdf(outcome, out)
              [] backend = "pikepdf" -> compress_with_pikepdf(outcome, out)
              [] backend = "pypdf" -> compress_with_pypdf(outcome, out)
        second == compress_with_pikepdf(fallback, first.output)
    IN  IF ~first.raised
        THEN Applied(first, <<Attempt(backend, first, outcome)>>)
        ELSE IF method # "pikepdf"
        THEN Applied(second, <<Attempt(backend, first, outcome),
                               Attempt("pikepdf", second, fallback)>>)
        ELSE Applied(Returned(error_result(<<"All compression methods failed",
                                             first.value>>), first.output),
                     <<Attempt(backend, first, outcome)>>)

(***************************************************************************)
(* Inputs of the model.                                                    *)
(***************************************************************************)
\* limits.max_file_size_mb, limits.min_file_size_kb and
\* filters.min_compression_percent of the YAML file
MaxFileSizeMbChoices == {1, 11}
MinFileSizeKbChoices == {0, 100}
MinCompressionPercentChoices == {-5, 0, 10}

Configs ==
    [max_file_size_mb : MaxFileSizeMbChoices,
     min_file_size_kb : MinFileSizeKbChoices,
     min_compression_percent : MinCompressionPercentChoices]

\* compression.levels.<level> of the YAML file: a dict or null
SettingsChoices == {"dict", None}

\* sizes of the input file, around the thresholds of compress() and of the
\* selector
InputSizes == {0, 100 * KiB - 1, 100 * KiB, MiB, MiB + 1,
               10 * MiB, 10 * MiB + 1, 11 * MiB, 11 * MiB + 1}

StaleSize == 200 * KiB

\* a file already at output_path when compress() is called
OutputsBefore == {NoFile, File("stale", StaleSize)}

\* sizes of a complete output for an input of `size` bytes
OutSizes(size) ==
    {0, size \div 2, (size * 9) \div 10, (size * 95) \div 100, size, size + KiB}

Writes(size) ==
    {[written |-> "nothing", size |-> 0], [written |-> "partial", size |-> size \div 4]}
    \cup {[written |-> "complete", size |-> s] : s \in OutSizes(size)}

\* what an external tool can do: exit 0 or 3 having written the output (or,
\* with exit 0, nothing), exit 2 with or without the warnings text, time out
\* or fail to start, having written nothing or a partial file
Runs(size) ==
    {Run("exit", 0, "", w.written, w.size) :
        w \in {v \in Writes(size) : v.written # "partial"}}
    \cup {Run("exit", 3, WARNINGS, "complete", s) : s \in OutSizes(size)}
    \cup {Run("exit", 2, e, w.written, w.size) :
        e \in {"", WARNINGS, "error text"},
        w \in {v \in Writes(size) : v.written # "complete"}}
    \cup {Run("timeout", 0, "", w.written, w.size) :
        w \in {v \in Writes(size) : v.written # "complete"}}
    \cup {Run("oserror", 0, "", "nothing", 0)}

\* what a library backend can do: it returns after save() has written the
\* complete file, or raises with nothing or a partial file written
Libs(size) ==
    {Lib("ok", "complete", s) : s \in OutSizes(size)}
    \cup {Lib(k, "nothing", 0) : k \in {"open_error", "page_error", "save_error"}}
    \cup {Lib("save_error", "partial", size \div 4)}

\* the documents: up to MaxPages pages, plain but for one page
Layouts ==
    {[i \in 1..n |-> IF i = k THEN Page(x, IF x THEN t ELSE {}, a) ELSE PlainPage] :
        n \in {1, MaxPages}, k \in {1, MaxPages},
        x \in BOOLEAN, t \in SUBSET Subtypes, a \in BOOLEAN}

Docs ==
    [pages : Layouts, acroform : BOOLEAN, pikepdf_raises_at : {0, 1, 2, NoRaise},
     pypdf_opens : BOOLEAN, encrypted : BOOLEAN]

\* nothing has been returned yet: the empty dict
NoResult == <<>>
NoApply == <<>>

\* the batch driver: nothing of the current file in the storage, empty
\* statistics (main.py lines 50-59), verify_compressed_file not called
NoRemote == [original |-> FALSE, backup |-> FALSE, target |-> FALSE]
NoStats == [processed_files |-> 0, failed_files |-> 0, errors |-> <<>>, files |-> <<>>]
NotRun == "not_run"

\* no method is run on its own
NoDocument == "no_document"
NoProbes == "no_probes"
NoRun == "no_run"

(***************************************************************************)
(* PDFCompressor.__init__: the configuration is loaded and the tools are   *)
(* probed.  No compress() call has begun.                                  *)
(***************************************************************************)
Init ==
    /\ config \in Configs
    /\ compression_settings \in SettingsChoices
    /\ \E gs_probe \in Probes, qpdf_probe \in Probes :
            available_tools = check_available_tools(gs_probe, qpdf_probe)
    /\ input_file = NoFile
    /\ output_file = NoFile
    /\ pc = "idle"
    /\ original_size = 0
    /\ compression_method = NoMethod
    /\ analysis = NoAnalysis
    /\ parsed_by = NotParsed
    /\ apply_result = NoApply
    /\ result = NoResult
    /\ attempts = <<>>
    /\ input_before = NoFile
    /\ output_before = NoFile
    /\ step = "off"
    /\ file_index = 0
    /\ safety = [verify_compression |-> TRUE, create_backup |-> TRUE]
    /\ remote = NoRemote
    /\ stats = NoStats
    /\ error = None
    /\ verified = NotRun
    /\ unit = "off"
    /\ document = NoDocument
    /\ probes = NoProbes
    /\ tool_run = NoRun

instance_vars == <<available_tools, compression_settings, config>>

(***************************************************************************)
(* The caller calls compress(input_path, output_path) with some files at   *)
(* the two paths.                                                          *)
(***************************************************************************)
\* compress() probing the tools anew and taking qpdf for missing
Call_reprobes(inp, out) ==
    /\ pc \in {"idle", "done"}
    /\ input_file' = inp
    /\ output_file' = out
    /\ input_before' = inp
    /\ output_before' = out
    /\ pc' = "check"
    /\ original_size' = 0
    /\ compression_method' = NoMethod
    /\ analysis' = NoAnalysis
    /\ parsed_by' = NotParsed
    /\ apply_result' = NoApply
    /\ result' = NoResult
    /\ attempts' = <<>>
    /\ available_tools' = [available_tools EXCEPT !["qpdf"] = FALSE]
    /\ UNCHANGED <<compression_settings, config>>

Call(inp, out) ==
    /\ pc \in {"idle", "done"}
    /\ input_file' = inp
    /\ output_file' = out
    /\ input_before' = inp
    /\ output_before' = out
    /\ pc' = "check"
    /\ original_size' = 0
    /\ compression_method' = NoMethod
    /\ analysis' = NoAnalysis
    /\ parsed_by' = NotParsed
    /\ apply_result' = NoApply
    /\ result' = NoResult
    /\ attempts' = <<>>
    /\ UNCHANGED instance_vars

(***************************************************************************)
(* compress(), lines 86-110: existence and size checks.  The mkdir of line *)
(* 93 creates the directory of output_path and no file.                    *)
(***************************************************************************)
\* the maximum off by one byte
max_size_bytes_off_by_one(cfg) == cfg.max_file_size_mb * 1024 * 1024 + 1

max_size_bytes(cfg) == cfg.max_file_size_mb * 1024 * 1024

\* the minimum taken in bytes instead of KiB
min_size_bytes_unscaled(cfg) == cfg.min_file_size_kb

min_size_bytes(cfg) == cfg.min_file_size_kb * 1024

Return(value) ==
    /\ result' = value
    /\ pc' = "done"

\* compress() without the size checks
CheckInput_unchecked ==
    /\ pc = "check"
    /\ IF ~input_file.exists
       THEN /\ Return(error_result(<<"Input file not found", INPUT_PATH>>))
            /\ UNCHANGED original_size
       ELSE /\ original_size' = input_file.size
            /\ pc' = "choose"
            /\ UNCHANGED result
    /\ UNCHANGED <<instance_vars, input_file, output_file, compression_method,
                   analysis, parsed_by, apply_result, attempts, input_before,
                   output_before, driver_vars, unit_vars>>

CheckInput ==
    /\ pc = "check"
    /\ IF ~input_file.exists
       THEN /\ Return(error_result(<<"Input file not found", INPUT_PATH>>))
            /\ UNCHANGED original_size
       ELSE /\ original_size' = input_file.size
            /\ IF input_file.size > max_size_bytes(config)
               THEN Return(error_result(<<"File too large",
                                          ToString(input_file.size),
                                          ToString(config.max_file_size_mb)>>))
               ELSE IF input_file.size < min_size_bytes(config)
               THEN Return(success_result(INPUT_PATH, OUTPUT_PATH,
                                          input_file.size, input_file.size,
                                          <<"File too small - copied unchanged">>))
               ELSE /\ pc' = "choose"
                    /\ UNCHANGED result
    /\ UNCHANGED <<instance_vars, input_file, output_file, compression_method,
                   analysis, parsed_by, apply_result, attempts, input_before,
                   output_before, driver_vars, unit_vars>>

(***************************************************************************)
(* _analyze_pdf returns an analysis, or raises when the stat of line 187,  *)
(* which is outside its try block, fails (OSError).                        *)
(***************************************************************************)
ChooseMethod ==
    /\ pc = "choose"
    /\ \E doc \in Docs, stat_raises \in BOOLEAN :
        /\ analysis' = IF stat_raises THEN NoAnalysis
                       ELSE analyze_pdf(doc, original_size)
        /\ parsed_by' = IF stat_raises THEN "raised" ELSE parsed(doc)
        /\ compression_method' =
               choose_compression_method(doc, original_size, available_tools,
                                         stat_raises)
    /\ pc' = "apply"
    /\ UNCHANGED <<instance_vars, input_file, output_file, original_size,
                   apply_result, result, attempts, input_before,
                   output_before, driver_vars, unit_vars>>

(***************************************************************************)
(* compress(), line 121: result = self._apply_compression(...)             *)
(***************************************************************************)
\* the outcomes the dispatched backend can have, and those of the fallback
\* call (it is made only after the first adapter raised)
Outcomes(backend, settings, size) ==
    IF backend = "ghostscript" /\ settings = None THEN {Run("oserror", 0, "", "nothing", 0)}
    ELSE IF backend \in {"ghostscript", "qpdf"} THEN Runs(size)
    ELSE Libs(size)

Fallbacks(backend, settings, size) ==
    IF backend = "ghostscript" /\ settings = None THEN Libs(size)
    ELSE {Lib("open_error", "nothing", 0)}

ApplyCompression ==
    /\ pc = "apply"
    /\ LET backend == dispatch(compression_method, available_tools)
       IN  \E outcome \in Outcomes(backend, compression_settings, original_size),
              fallback \in Fallbacks(backend, compression_settings, original_size) :
            LET applied == apply_compression(compression_method, available_tools,
                                             compression_settings, output_file,
                                             outcome, fallback)
            IN  /\ attempts' = applied.attempts
                /\ output_file' = applied.output
                /\ IF applied.raised
                   THEN /\ Return(error_result(<<"Compression error", applied.value>>))
                        /\ UNCHANGED apply_result
                   ELSE /\ apply_result' = applied.value
                        /\ pc' = "post"
                        /\ UNCHANGED result
    /\ analysis' = NoAnalysis
    /\ parsed_by' = NotParsed
    /\ UNCHANGED <<instance_vars, input_file, original_size, compression_method,
                   input_before, output_before, driver_vars, unit_vars>>

(***************************************************************************)
(* compress(), lines 123-143: the savings check and the final result.      *)
(* shutil.copy2 copies the input onto output_path, or raises (OSError)     *)
(* leaving the output as it was or partly written.                         *)
(***************************************************************************)
CopyOutcomes == {"copied", "raised", "raised_partial"}

\* the OSError of shutil.copy2 leaving compress() uncaught
PostProcess_copy_escapes ==
    /\ pc = "post"
    /\ IF apply_result.success /\ output_file.exists
       THEN LET compressed_size == output_file.size
                savings == calculate_savings(original_size, compressed_size)
            IN  IF FracLess(savings.percent_saved, config.min_compression_percent)
                THEN \E copy \in CopyOutcomes :
                        CASE copy = "copied" ->
                                /\ input_file' = copy2(input_file, output_file).src
                                /\ output_file' = copy2(input_file, output_file).dst
                                /\ Return(success_result(
                                       INPUT_PATH, OUTPUT_PATH, original_size,
                                       original_size,
                                       <<"Compressed by method", compression_method>>))
                          [] copy = "raised" ->
                                /\ UNCHANGED <<input_file, output_file, result>>
                                /\ pc' = "raised"
                          [] copy = "raised_partial" ->
                                /\ output_file' = File("partial", 0)
                                /\ UNCHANGED <<input_file, result>>
                                /\ pc' = "raised"
                ELSE /\ UNCHANGED <<input_file, output_file>>
                     /\ Return(success_result(
                            INPUT_PATH, OUTPUT_PATH, original_size, compressed_size,
                            <<"Compressed by method", compression_method>>))
       ELSE /\ UNCHANGED <<input_file, output_file>>
            /\ Return(apply_result)
    /\ UNCHANGED <<instance_vars, original_size, compression_method,
                   analysis, parsed_by, apply_result, attempts, input_before,
                   output_before, driver_vars, unit_vars>>

PostProcess ==
    /\ pc = "post"
    /\ IF apply_result.success /\ output_file.exists
       THEN LET compressed_size == output_file.size
                savings == calculate_savings(original_size, compressed_size)
            IN  IF FracLess(savings.percent_saved, config.min_compression_percent)
                THEN \E copy \in CopyOutcomes :
                        CASE copy = "copied" ->
                                /\ input_file' = copy2(input_file, output_file).src
                                /\ output_file' = copy2(input_file, output_file).dst
                                /\ Return(success_result(
                                       INPUT_PATH, OUTPUT_PATH, original_size,
                                       original_size,
                                       <<"Compressed by method", compression_method>>))
                          [] copy = "raised" ->
                                /\ UNCHANGED <<input_file, output_file>>
                                /\ Return(error_result(<<"Compression error", "OSError">>))
                          [] copy = "raised_partial" ->
                                /\ output_file' = File("partial", 0)
                                /\ UNCHANGED input_file
                                /\ Return(error_result(<<"Compression error", "OSError">>))
                ELSE /\ UNCHANGED <<input_file, output_file>>
                     /\ Return(success_result(
                            INPUT_PATH, OUTPUT_PATH, original_size, compressed_size,
                            <<"Compressed by method", compression_method>>))
       ELSE /\ UNCHANGED <<input_file, output_file>>
            /\ Return(apply_result)
    /\ UNCHANGED <<instance_vars, original_size, compression_method,
                   analysis, parsed_by, apply_result, attempts, input_before,
                   output_before, driver_vars, unit_vars>>

Next ==
    \/ \E inp \in {NoFile} \cup {File("original", s) : s \in InputSizes},
          out \in OutputsBefore : Call(inp, out) /\ UNCHANGED <<driver_vars, unit_vars>>
    \/ CheckInput
    \/ ChooseMethod
    \/ ApplyCompression
    \/ PostProcess

Spec == Init /\ [][Next]_vars

(***************************************************************************)
(* compress() is straight-line code: once called, each of its statements   *)
(* is executed in turn.  The external tools run under a timeout (lines     *)
(* 296 and 325) and the library calls are taken to return or raise.  The   *)
(* step taken at a position of compress() is the one that moves pc away    *)
(* from it: that of CheckInput at "check", of ChooseMethod at "choose", of *)
(* ApplyCompression at "apply" and of PostProcess at "post".               *)
(***************************************************************************)
Positions == {"check", "choose", "apply", "post"}

Executes(at) == pc = at /\ pc' \in Positions \cup {"done"} /\ pc' # at

Fairness == \A at \in Positions : WF_pc(Executes(at))

SpecLive == Spec /\ Fairness

(***************************************************************************)
(* The batch driver, PDFBatchCompressor._process_single_file (main.py      *)
(* lines 167-268), run by _process_files for each file of the list.  The   *)
(* temporary paths carry the file name, so each file starts with no file   *)
(* at input_path and output_path.  A call of the storage client returns    *)
(* true or false: download_file, upload_file and delete_file catch every   *)
(* exception of the transfer (mega_client.py lines 256, 300, 367), and     *)
(* _ensure_connected cannot raise once the listing of the files, made with *)
(* the same client, has succeeded.  Errors are recorded by the fixed part  *)
(* of their message; the byte totals and timestamps of self.stats are left *)
(* out.                                                                    *)
(***************************************************************************)
MegaOutcomes == BOOLEAN

\* sizes of the files of the list: below the minimum, and above it
BatchSizes == {100 * KiB - 1, MiB}

\* the configuration the driver runs with
BatchConfigs ==
    {c \in Configs : c.max_file_size_mb = 11 /\ c.min_file_size_kb = 100
                     /\ c.min_compression_percent = 10}

InitBatch ==
    /\ config \in BatchConfigs
    /\ compression_settings \in SettingsChoices
    /\ \E gs_probe \in Probes, qpdf_probe \in Probes :
            available_tools = check_available_tools(gs_probe, qpdf_probe)
    /\ input_file = NoFile
    /\ output_file = NoFile
    /\ pc = "idle"
    /\ original_size = 0
    /\ compression_method = NoMethod
    /\ analysis = NoAnalysis
    /\ parsed_by = NotParsed
    /\ apply_result = NoApply
    /\ result = NoResult
    /\ attempts = <<>>
    /\ input_before = NoFile
    /\ output_before = NoFile
    /\ step = "init"
    /\ file_index = 0
    /\ safety \in [verify_compression : BOOLEAN, create_backup : BOOLEAN]
    /\ remote = NoRemote
    /\ stats = NoStats
    /\ error = None
    /\ verified = NotRun
    /\ unit = "off"
    /\ document = NoDocument
    /\ probes = NoProbes
    /\ tool_run = NoRun

\* PDFCompressor.get_compression_info (compressor.py lines 454-463)
get_compression_info(tools, settings, cfg) ==
    [settings |-> settings,
     available_tools |-> tools,
     max_file_size_mb |-> cfg.max_file_size_mb,
     min_file_size_kb |-> cfg.min_file_size_kb,
     min_compression_percent |-> cfg.min_compression_percent]

\* _initialize_clients, lines 133-135: the compressor has been constructed
\* and the driver logs the names of get_compression_info()['available_tools']
GetCompressionInfo ==
    /\ step = "init"
    /\ DOMAIN get_compression_info(available_tools, compression_settings,
                                   config).available_tools = Methods
    /\ step' = "next"
    /\ UNCHANGED <<compressor_vars, file_index, safety, unit_vars, remote, stats,
                   error, verified>>

\* raise Exception(message) inside the try of _process_single_file
Raise(message) ==
    /\ error' = message
    /\ step' = "except"

\* _process_files, lines 145-151: the next file of the list
NextFile ==
    /\ step = "next"
    /\ file_index < MaxFiles
    /\ file_index' = file_index + 1
    /\ remote' = [original |-> TRUE, backup |-> FALSE, target |-> FALSE]
    /\ input_file' = NoFile
    /\ output_file' = NoFile
    /\ error' = None
    /\ verified' = NotRun
    /\ step' = "download"
    \* the locals of the compress() call made for the previous file are gone
    /\ pc' = "idle"
    /\ original_size' = 0
    /\ compression_method' = NoMethod
    /\ apply_result' = NoApply
    /\ result' = NoResult
    /\ attempts' = <<>>
    /\ input_before' = NoFile
    /\ output_before' = NoFile
    /\ UNCHANGED <<instance_vars, analysis, parsed_by, safety, unit_vars, stats>>

\* _process_files, line 165: the list is exhausted
Finish ==
    /\ step = "next"
    /\ step' = "end"
    /\ UNCHANGED <<compressor_vars, file_index, safety, unit_vars, remote, stats, error,
                   verified>>

\* lines 179-182
Download ==
    /\ step = "download"
    /\ \E downloaded \in MegaOutcomes, size \in BatchSizes :
        IF downloaded
        THEN /\ input_file' = File("original", size)
             /\ step' = "backup"
             /\ UNCHANGED error
        ELSE /\ Raise("Download error")
             /\ UNCHANGED input_file
    /\ UNCHANGED <<instance_vars, output_file, pc, original_size,
                   compression_method, analysis, parsed_by, apply_result, result,
                   attempts, input_before, output_before, file_index, safety, unit_vars,
                   remote, stats, verified>>

\* lines 184-189: a backup that fails is only logged
Backup ==
    /\ step = "backup"
    /\ IF safety.create_backup
       THEN \E copied \in MegaOutcomes :
                remote' = [remote EXCEPT !.backup = copied]
       ELSE UNCHANGED remote
    /\ step' = "compress"
    /\ UNCHANGED <<compressor_vars, file_index, safety, unit_vars, stats, error, verified>>

\* line 193: self.compressor.compress(input_temp_path, output_temp_path)
Compress ==
    /\ step = "compress"
    /\ Call(input_file, output_file)
    /\ step' = "compressing"
    /\ UNCHANGED <<file_index, safety, unit_vars, remote, stats, error, verified>>

\* lines 195-205: the result of compress() is read
Collect ==
    /\ step = "compressing"
    /\ pc = "done"
    /\ IF ~result.success
       THEN Raise("Compression error")
       ELSE IF ~({"size_after", "bytes_saved", "percent_saved"} \subseteq DOMAIN result)
       THEN Raise("KeyError")
       ELSE /\ step' = "verify"
            /\ UNCHANGED error
    /\ UNCHANGED <<compressor_vars, file_index, safety, unit_vars, remote, stats, verified>>

\* PDFCompressor.verify_compressed_file (compressor.py lines 437-452): true
\* if pikepdf and pypdf both read the file, false if either raises
verify_compressed_file(file, readable) ==
    file.exists /\ file.size > 0 /\ readable

\* a failed verification that is only logged
Verify_logged_only ==
    /\ step = "verify"
    /\ IF safety.verify_compression
       THEN \E readable \in BOOLEAN :
                verified' = IF verify_compressed_file(output_file, readable)
                            THEN "true" ELSE "false"
       ELSE UNCHANGED verified
    /\ step' = "upload"
    /\ UNCHANGED <<compressor_vars, file_index, safety, unit_vars, remote, stats, error>>

\* lines 207-210
Verify ==
    /\ step = "verify"
    /\ IF safety.verify_compression
       THEN \E readable \in BOOLEAN :
                IF verify_compressed_file(output_file, readable)
                THEN /\ verified' = "true"
                     /\ step' = "upload"
                     /\ UNCHANGED error
                ELSE /\ verified' = "false"
                     /\ Raise("Compressed file is corrupt")
       ELSE /\ step' = "upload"
            /\ UNCHANGED <<verified, error>>
    /\ UNCHANGED <<compressor_vars, file_index, safety, unit_vars, remote, stats>>

\* an upload that fails is only logged
Upload_failure_logged ==
    /\ step = "upload"
    /\ \E uploaded \in MegaOutcomes :
        /\ uploaded => output_file.exists
        /\ remote' = [remote EXCEPT !.target = uploaded]
    /\ step' = "delete"
    /\ UNCHANGED <<compressor_vars, file_index, safety, unit_vars, stats, error,
                   verified>>

\* lines 212-216; upload_file returns false for a missing local file
\* (mega_client.py lines 273-276)
Upload ==
    /\ step = "upload"
    /\ \E uploaded \in MegaOutcomes :
        /\ uploaded => output_file.exists
        /\ IF uploaded
           THEN /\ remote' = [remote EXCEPT !.target = TRUE]
                /\ step' = "delete"
                /\ UNCHANGED error
           ELSE /\ Raise("Upload error")
                /\ UNCHANGED remote
    /\ UNCHANGED <<compressor_vars, file_index, safety, unit_vars, stats, verified>>

\* lines 218-221: a deletion that fails is only logged
Delete ==
    /\ step = "delete"
    /\ \E deleted \in MegaOutcomes :
        remote' = [remote EXCEPT !.original = ~deleted]
    /\ step' = "record"
    /\ UNCHANGED <<compressor_vars, file_index, safety, unit_vars, stats, error, verified>>

\* lines 223-240
Record ==
    /\ step = "record"
    /\ stats' = [stats EXCEPT !.processed_files = @ + 1,
                              !.files = Append(@, file_index)]
    /\ step' = "finally"
    /\ UNCHANGED <<compressor_vars, file_index, safety, unit_vars, remote, error, verified>>

\* lines 242-261; the rollback of lines 246-252 does nothing
Except ==
    /\ step = "except"
    /\ stats' = [stats EXCEPT !.failed_files = @ + 1,
                              !.errors = Append(@, [file |-> file_index,
                                                    error |-> error])]
    /\ step' = "finally"
    /\ UNCHANGED <<compressor_vars, file_index, safety, unit_vars, remote, error, verified>>

\* lines 263-268: the temporary files are unlinked.  An unlink that raises
\* (OSError) leaves _process_single_file and is handled by _process_files,
\* lines 153-163.
Cleanup ==
    /\ step = "finally"
    /\ \E unlink_raises \in BOOLEAN :
        /\ unlink_raises => (input_file.exists \/ output_file.exists)
        /\ IF unlink_raises
           THEN /\ stats' = [stats EXCEPT
                                !.failed_files = @ + 1,
                                !.errors = Append(@, [file |-> file_index,
                                                      error |-> "OSError"])]
                /\ UNCHANGED <<input_file, output_file>>
           ELSE /\ input_file' = NoFile
                /\ output_file' = NoFile
                /\ UNCHANGED stats
    /\ step' = "next"
    /\ UNCHANGED <<instance_vars, pc, original_size, compression_method, analysis,
                   parsed_by, apply_result, result, attempts, input_before,
                   output_before, file_index, safety, unit_vars, remote, error, verified>>

NextBatch ==
    \/ GetCompressionInfo
    \/ NextFile
    \/ Finish
    \/ Download
    \/ Backup
    \/ Compress
    \/ CheckInput
    \/ ChooseMethod
    \/ ApplyCompression
    \/ PostProcess
    \/ Collect
    \/ Verify
    \/ Upload
    \/ Delete
    \/ Record
    \/ Except
    \/ Cleanup

SpecBatch == InitBatch /\ [][NextBatch]_vars

(***************************************************************************)
(* The methods of PDFCompressor run on their own: _analyze_pdf on a        *)
(* document, _check_available_tools on the outcomes of the two version     *)
(* probes, _compress_with_qpdf on the outcome of the qpdf process.         *)
(***************************************************************************)
\* sizes of the file given to _analyze_pdf and to _compress_with_qpdf
UnitSizes == {MiB, 11 * MiB}

\* subprocess.run of a version probe can also raise an OSError that is
\* neither FileNotFoundError nor a SubprocessError: PermissionError, when
\* the executable found on the PATH may not be executed
ProbeOutcomes == Probes \cup {ProbeResult("permission", 0)}

\* the except clauses of lines 52 and 64 do not catch the exception
probe_raises(probe) == probe.kind = "permission"

\* tools = {} of line 41
NoTools == <<>>

\* the state in which nothing of the compressor or of the driver has run
Untouched ==
    /\ config \in BatchConfigs
    /\ compression_settings = "dict"
    /\ output_file = NoFile
    /\ pc = "idle"
    /\ original_size = 0
    /\ compression_method = NoMethod
    /\ analysis = NoAnalysis
    /\ parsed_by = NotParsed
    /\ apply_result = NoApply
    /\ result = NoResult
    /\ attempts = <<>>
    /\ input_before = NoFile
    /\ output_before = NoFile
    /\ step = "off"
    /\ file_index = 0
    /\ safety = [verify_compression |-> TRUE, create_backup |-> TRUE]
    /\ remote = NoRemote
    /\ stats = NoStats
    /\ error = None
    /\ verified = NotRun

InitUnits ==
    /\ Untouched
    /\ \/ /\ unit = "analyze"
          /\ document \in Docs
          /\ input_file \in {File("original", s) : s \in UnitSizes}
          /\ available_tools = check_available_tools(ProbeResult("exit", 0),
                                                     ProbeResult("exit", 0))
          /\ probes = NoProbes
          /\ tool_run = NoRun
       \/ /\ unit = "probe"
          /\ probes \in [gs : ProbeOutcomes, qpdf : ProbeOutcomes]
          /\ available_tools = NoTools
          /\ input_file = NoFile
          /\ document = NoDocument
          /\ tool_run = NoRun
       \/ /\ unit = "qpdf"
          /\ input_file \in {File("original", s) : s \in UnitSizes}
          /\ tool_run \in UNION {Runs(s) : s \in UnitSizes}
          /\ available_tools = check_available_tools(ProbeResult("exit", 0),
                                                     ProbeResult("exit", 0))
          /\ document = NoDocument
          /\ probes = NoProbes

\* _analyze_pdf(input_path), lines 179-229
AnalyzePdf ==
    /\ unit = "analyze"
    /\ \E stat_raises \in BOOLEAN :
        IF stat_raises
        THEN /\ unit' = "analyze_raised"
             /\ UNCHANGED <<analysis, parsed_by>>
        ELSE /\ analysis' = analyze_pdf(document, input_file.size)
             /\ parsed_by' = parsed(document)
             /\ unit' = "analyzed"
    /\ UNCHANGED <<instance_vars, input_file, output_file, pc, original_size,
                   compression_method, apply_result, result, attempts,
                   input_before, output_before, driver_vars, document, probes,
                   tool_run>>

\* _check_available_tools(), lines 39-73
CheckAvailableTools ==
    /\ unit = "probe"
    /\ IF probe_raises(probes.gs) \/ probe_raises(probes.qpdf)
       THEN /\ unit' = "probe_raised"
            /\ UNCHANGED available_tools
       ELSE /\ available_tools' = check_available_tools(probes.gs, probes.qpdf)
            /\ unit' = "probed"
    /\ UNCHANGED <<compression_settings, config, input_file, output_file, pc,
                   original_size, compression_method, analysis, parsed_by,
                   apply_result, result, attempts, input_before, output_before,
                   driver_vars, document, probes, tool_run>>

\* _compress_with_qpdf(input_path, output_path), lines 311-342
CompressWithQpdf ==
    /\ unit = "qpdf"
    /\ LET r == compress_with_qpdf(tool_run, output_file)
       IN  /\ apply_result' = r.value
           /\ output_file' = r.output
    /\ unit' = "qpdf_returned"
    /\ UNCHANGED <<instance_vars, input_file, pc, original_size,
                   compression_method, analysis, parsed_by, result, attempts,
                   input_before, output_before, driver_vars, document, probes,
                   tool_run>>

NextUnits ==
    \/ AnalyzePdf
    \/ CheckAvailableTools
    \/ CompressWithQpdf

SpecUnits == InitUnits /\ [][NextUnits]_vars

(***************************************************************************)
(* Properties of compress().                                               *)
(***************************************************************************)

\* C1: when the backend being attempted returns a failed outcome or raises,
\* compress() goes on to attempt the next available backend: a failed
\* attempt is the last one of the call only if no available backend is
\* left untried.
C1_FailedAttemptIsFollowedByNext ==
    pc = "done" =>
        \A i \in 1..Len(attempts) :
            (/\ attempts[i].outcome # "success"
             /\ \E m \in Methods :
                    /\ available_tools[m]
                    /\ \A j \in 1..i : attempts[j].backend # m)
            => i < Len(attempts)

\* C2: once the existence and size checks have passed, compress() returns
\* success=false only after every available backend has been attempted
\* and has failed.
C2_FailureOnlyAfterAllBackendsFailed ==
    (pc = "done" /\ compression_method # NoMethod /\ ~result.success) =>
        /\ \A m \in Methods :
                available_tools[m] =>
                    \E i \in 1..Len(attempts) : attempts[i].backend = m
        /\ \A i \in 1..Len(attempts) : attempts[i].outcome # "success"

\* C3: if the chosen backend fails and a later backend succeeds, the
\* result compress() returns names the backend that succeeded, in its
\* method field and in its message.
C3_ResultNamesSucceedingBackend ==
    (/\ pc = "done"
     /\ Len(attempts) >= 2
     /\ attempts[1].outcome # "success"
     /\ attempts[Len(attempts)].outcome = "success"
     /\ result.success) =>
        /\ "method" \in DOMAIN result
        /\ result.method = attempts[Len(attempts)].backend
        /\ result.message = <<"Compressed by method", attempts[Len(attempts)].backend>>

\* The savings check of a compressed output of `compressed` bytes for an
\* original of `original` bytes comes out below `minimum` percent.
SavingsBelow(original, compressed, minimum) ==
    IF original = 0 THEN 0 < minimum
    ELSE (original - compressed) * 100 < minimum * original

\* A backend has reported success, its output is at output_path and the
\* savings are below min_compression_percent.
DiscardCase ==
    /\ pc = "post"
    /\ apply_result.success
    /\ output_file.exists
    /\ SavingsBelow(original_size, output_file.size, config.min_compression_percent)

\* The result of the discard: the original is at output_path and the
\* result reports success with no savings and names the method.
Discarded ==
    /\ output_file' = input_before
    /\ result'.success
    /\ result'.size_before = input_before.size
    /\ result'.size_after = result'.size_before
    /\ result'.bytes_saved = 0
    /\ result'.message = <<"Compressed by method", compression_method>>

TooSmall ==
    /\ input_before.exists
    /\ input_before.size < config.min_file_size_kb * 1024

C6_TooSmallLeavesCopy ==
    (pc = "done" /\ TooSmall /\ result.success) =>
        /\ output_file.exists
        /\ output_file.content = input_before.content
        /\ output_file.size = input_before.size

\* The input of the call exists and is larger than the configured maximum.
TooLarge ==
    /\ input_before.exists
    /\ input_before.size > config.max_file_size_mb * 1024 * 1024

\* C7: for every input above the maximum size, compress() returns
\* success=false with a descriptive error and creates no file at
\* output_path (what was at output_path is as it was).
C7_TooLargeRefused ==
    (pc = "done" /\ TooLarge) =>
        /\ ~result.success
        /\ result.error # NoError
        /\ Head(result.error) = "File too large"
        /\ output_file = output_before

C7_Witness == pc = "done" /\ TooLarge /\ ~output_before.exists /\ ~result.success

\* C8: compress() never writes to, replaces or deletes the input file: at
\* every point of a call the file at input_path is the one the call began
\* with.
C8_InputUntouched == input_file = input_before

C8_Witness ==
    /\ pc = "done"
    /\ input_before.exists
    /\ Len(attempts) > 0
    /\ result.success
    /\ output_file = input_before

\* C9: if no file existed at output_path before the call, then whenever
\* compress() returns success=false no file exists at output_path
\* afterwards.
C9_NoOutputLeftOnFailure ==
    (pc = "done" /\ ~output_before.exists /\ ~result.success) =>
        ~output_file.exists

ResultFields ==
    {"success", "size_before", "size_after", "bytes_saved", "percent_saved",
     "compression_ratio", "method", "message", "error"}

\* C10: every result compress() returns carries all of the fields success,
\* size_before, size_after, bytes_saved, percent_saved, compression_ratio,
\* method, message and error.
C10_ResultHasAllFields ==
    pc = "done" => ResultFields \subseteq DOMAIN result

\* The last attempt of the call.
LastAttempt == attempts[Len(attempts)]

\* The error of the result contains `text`.
ErrorContains(text) ==
    /\ result.error # NoError
    /\ \E i \in 1..Len(result.error) : result.error[i] = text

Analysed == parsed_by \in {"primary", "secondary", "neither"}

\* C12: _choose_compression_method returns ghostscript if size > 10 MiB,
\* has_images and ghostscript is available; otherwise pikepdf if has_forms
\* or has_annotations; otherwise qpdf if available; otherwise ghostscript
\* if available; otherwise pikepdf.  It is one of the four method names.
C12_SelectorRules ==
    (pc = "apply" /\ Analysed) =>
        /\ compression_method \in Methods
        /\ compression_method =
             CASE /\ original_size > 10 * 1024 * 1024
                  /\ analysis.has_images
                  /\ available_tools["ghostscript"] -> "ghostscript"
               [] OTHER ->
                    CASE analysis.has_forms \/ analysis.has_annotations -> "pikepdf"
                      [] OTHER ->
                            CASE available_tools["qpdf"] -> "qpdf"
                              [] OTHER ->
                                    CASE available_tools["ghostscript"] -> "ghostscript"
                                      [] OTHER -> "pikepdf"

C12_Witness ==
    /\ pc = "apply"
    /\ Analysed
    /\ analysis.has_forms
    /\ available_tools["qpdf"]
    /\ ~available_tools["ghostscript"]
    /\ compression_method = "pikepdf"

\* Of the four backends only the libraries are available.
OnlyLibraries == ~available_tools["ghostscript"] /\ ~available_tools["qpdf"]

C14_ParseFailureChoosesPikepdf ==
    (pc = "apply" /\ parsed_by \in {"raised", "secondary", "neither"}) =>
        compression_method = "pikepdf"

\* C14 amended: if _analyze_pdf raises, the method chosen is pikepdf
\* whatever the tool availability; a failure to parse does not make it
\* raise, and the rules are then applied to the analysis it returns (qpdf
\* if available when the analysis has no forms, annotations or images).
C14_RaisedAnalysisChoosesPikepdf ==
    /\ (pc = "apply" /\ parsed_by = "raised") => compression_method = "pikepdf"
    /\ (/\ pc = "apply"
        /\ parsed_by \in {"secondary", "neither"}
        /\ ~analysis.has_images /\ ~analysis.has_forms /\ ~analysis.has_annotations
        /\ available_tools["qpdf"]) => compression_method = "qpdf"

C14_Witness ==
    /\ pc = "apply"
    /\ parsed_by = "raised"
    /\ available_tools["qpdf"]
    /\ available_tools["ghostscript"]
    /\ compression_method = "pikepdf"

\* C15: within one compress() call no backend is invoked more than once;
\* a fallback attempt is made with a backend other than the one that just
\* failed.
C15_NoBackendTwice ==
    \A i, j \in 1..Len(attempts) :
        i # j => attempts[i].backend # attempts[j].backend

C15_Witness ==
    /\ Len(attempts) = 2
    /\ attempts[1].outcome = "raised"
    /\ attempts[2].backend = "pikepdf"

\* The result carries the figures of calculate_savings.
HasSavings == pc = "done" /\ result.success /\ "size_before" \in DOMAIN result

\* C16: for every size S >= 0, calculate_savings(S, S) has bytes_saved = 0
\* and percent_saved = 0 (seen in the results built from equal sizes).
C16_EqualSizesSaveNothing ==
    (HasSavings /\ result.size_before = result.size_after) =>
        /\ result.bytes_saved = 0
        /\ result.percent_saved = <<0, 1>>

C16_Witness ==
    /\ HasSavings
    /\ result.size_before = result.size_after
    /\ result.size_before > 0
    /\ Len(attempts) = 0

\* C17 as stated: for every original size S, calculate_savings(S, 0) has
\* compression_ratio = infinity, bytes_saved = S and percent_saved = 100.
C17_EmptyOutputSavesAll ==
    (HasSavings /\ result.size_after = 0) =>
        /\ result.compression_ratio = Inf
        /\ result.bytes_saved = result.size_before
        /\ result.percent_saved = <<100, 1>>

\* C17 amended: so it is for every original size S > 0; for S = 0,
\* calculate_savings(0, 0) has compression_ratio, bytes_saved and
\* percent_saved all 0.
C17_EmptyOutputOfNonEmptyInput ==
    (HasSavings /\ result.size_after = 0) =>
        IF result.size_before > 0
        THEN /\ result.compression_ratio = Inf
             /\ result.bytes_saved = result.size_before
             /\ result.percent_saved = <<100, 1>>
        ELSE /\ result.compression_ratio = <<0, 1>>
             /\ result.bytes_saved = 0
             /\ result.percent_saved = <<0, 1>>

C17_Witness ==
    /\ HasSavings
    /\ result.size_after = 0
    /\ result.size_before > 0
    /\ result.compression_ratio = Inf

\* The input of the call is refused or passed over by the checks.
Rejected == ~input_before.exists \/ TooLarge \/ TooSmall

\* Neither the analyzer and selector nor a backend has been invoked.
NothingInvoked ==
    /\ compression_method = NoMethod
    /\ parsed_by = NotParsed
    /\ attempts = <<>>
    /\ apply_result = NoApply

StepOrder ==
    {<<"idle", "check">>, <<"done", "check">>, <<"check", "done">>,
     <<"check", "choose">>, <<"choose", "apply">>, <<"apply", "post">>,
     <<"apply", "done">>, <<"post", "done">>}

\* C19: in every compress() call the steps come in the order check,
\* selection, backend attempt(s), result; when the input is missing, too
\* large or too small neither the analyzer and selector nor any backend is
\* invoked in that call.
C19_StepsInOrder ==
    [][/\ <<pc, pc'>> \in StepOrder
       /\ pc' \in {"check", "choose"} => NothingInvoked'
       /\ pc' = "apply" => (compression_method' # NoMethod /\ attempts' = <<>>)
       /\ Rejected' => NothingInvoked']_vars

C19_Witness ==
    /\ pc = "done"
    /\ TooSmall
    /\ result.success
    /\ NothingInvoked

\* C20: _analyze_pdf never propagates a parsing exception, and if both
\* parsers fail the analysis it returns has every field at its default,
\* with file_size the size of the file on disk.
C20_BothParsersFailGivesDefaults ==
    /\ (pc = "apply" /\ parsed_by \in {"secondary", "neither"}) =>
            analysis.file_size = input_file.size
    /\ (pc = "apply" /\ parsed_by = "neither") =>
            analysis = [pages |-> 0, has_images |-> FALSE, has_forms |-> FALSE,
                        has_annotations |-> FALSE, encrypted |-> FALSE,
                        file_size |-> input_file.size]

\* The current file is recorded as failed, with `message`.
RecordedAsFailed(message) ==
    \E i \in DOMAIN stats.errors :
        stats.errors[i] = [file |-> file_index, error |-> message]

\* The current file is recorded as processed.
RecordedAsProcessed ==
    \E i \in DOMAIN stats.files : stats.files[i] = file_index

\* C18: in the batch driver with verify_compression enabled, if
\* verify_compressed_file returns false for the output of a successful
\* compress(), the file is never uploaded to the target folder and is
\* recorded as failed (failed_files incremented, an error appended), not
\* as processed.
C18_CorruptOutputNotUploaded ==
    /\ stats.failed_files = Len(stats.errors)
    /\ stats.processed_files = Len(stats.files)
    /\ (safety.verify_compression /\ verified = "false") =>
            /\ result.success
            /\ ~remote.target
            /\ step \in {"except", "finally", "next", "end"}
            /\ ~RecordedAsProcessed
            /\ step # "except" =>
                    /\ RecordedAsFailed("Compressed file is corrupt")
                    /\ stats.failed_files >= 1

C18_Witness ==
    /\ safety.verify_compression
    /\ verified = "false"
    /\ output_file.exists
    /\ output_file.size > 0
    /\ step = "finally"
    /\ RecordedAsFailed("Compressed file is corrupt")

\* C21: when the primary parser reads the file without error, has_images
\* is true iff one of the first 5 pages references an image XObject,
\* has_annotations is true iff any page of the document, at any position,
\* carries an annotation dictionary, and has_forms is true iff the document
\* root has a form dictionary.
C21_AnalysisOfReadableDocument ==
    (unit = "analyzed" /\ parsed_by = "primary") =>
        /\ analysis.has_images <=>
                \E i \in 1..Min(5, Len(document.pages)) :
                    /\ document.pages[i].has_xobject
                    /\ "Image" \in document.pages[i].subtypes
        /\ analysis.has_annotations <=>
                \E i \in 1..Len(document.pages) : document.pages[i].annots
        /\ analysis.has_forms <=> document.acroform

\* C22: _check_available_tools never raises; for each of ghostscript and
\* qpdf a zero exit of the version probe records the tool as available and
\* any other outcome as unavailable; pikepdf and pypdf are always recorded
\* as available, so the map has exactly the four backend names.
C22_ProbesNeverRaise ==
    /\ unit # "probe_raised"
    /\ unit = "probed" =>
        /\ DOMAIN available_tools = Methods
        /\ available_tools["ghostscript"] <=>
                (probes.gs.kind = "exit" /\ probes.gs.returncode = 0)
        /\ available_tools["qpdf"] <=>
                (probes.qpdf.kind = "exit" /\ probes.qpdf.returncode = 0)
        /\ available_tools["pikepdf"]
        /\ available_tools["pypdf"]

\* A compress() call begins with nothing but the instance and the two
\* files: every local of the call is fresh.
FreshCall ==
    /\ pc = "check"
    /\ original_size = 0
    /\ compression_method = NoMethod
    /\ analysis = NoAnalysis
    /\ parsed_by = NotParsed
    /\ apply_result = NoApply
    /\ result = NoResult
    /\ attempts = <<>>
    /\ input_before = input_file
    /\ output_before = output_file

\* C23: compress(), verify_compressed_file() and get_compression_info()
\* never modify available_tools or compression_settings (nor the
\* configuration) after construction, and no other state is carried from
\* one compress() call to the next: whatever was called before, a call
\* begins with the instance, the two files and fresh locals only.
C23_InstanceReadOnly ==
    [][/\ UNCHANGED <<available_tools, compression_settings, config>>
       /\ (pc # "check" /\ pc' = "check") => FreshCall']_vars

C23_Witness ==
    /\ file_index = 2
    /\ pc = "done"
    /\ step = "compressing"
    /\ result.success
    /\ stats.processed_files = 1
    /\ safety.verify_compression

\* C24: _compress_with_qpdf reports success exactly when the tool exits
\* with code 0 or with code 3 (succeeded with warnings); every other
\* non-zero exit code yields a failed outcome whatever the tool printed,
\* and so does a timeout.
C24_QpdfSuccessByExitCode ==
    unit = "qpdf_returned" =>
        (apply_result.success <=>
            (tool_run.kind = "exit" /\ tool_run.returncode \in {0, 3}))

\* C25: in _compress_with_pikepdf a failure to compress one page's content
\* stream is skipped and is not fatal: the remaining pages are processed,
\* the output is written and the outcome is success.
C25_PageFailureIsSkipped ==
    (/\ pc = "done"
     /\ Len(attempts) >= 1
     /\ LastAttempt.backend = "pikepdf"
     /\ LastAttempt.text = "page_error") =>
        /\ LastAttempt.outcome = "success"
        /\ result.success
        /\ output_file.exists

\* The savings of an output of `compressed` bytes for an original of
\* `original` bytes are exactly `minimum` percent.
SavingsEqual(original, compressed, minimum) ==
    IF original = 0 THEN minimum = 0
    ELSE (original - compressed) * 100 = minimum * original

\* The output of the backend is kept and reported.
Kept ==
    /\ output_file' = output_file
    /\ result'.success
    /\ result'.size_after = output_file.size

\* C26: the three thresholds of compress() are strict: an input whose size
\* equals the configured maximum is accepted, an input whose size equals
\* the configured minimum goes on to compression, and an output whose
\* percent_saved equals min_compression_percent is kept; only a size above
\* the maximum is refused, only a size below the minimum is passed over.
C26_ThresholdsAreStrict ==
    [][/\ (/\ pc = "check"
           /\ input_file.exists
           /\ input_file.size = config.max_file_size_mb * 1024 * 1024
           /\ input_file.size >= config.min_file_size_kb * 1024) => pc' = "choose"
       /\ (/\ pc = "check"
           /\ input_file.exists
           /\ input_file.size = config.min_file_size_kb * 1024
           /\ input_file.size <= config.max_file_size_mb * 1024 * 1024) => pc' = "choose"
       /\ (/\ pc = "check"
           /\ input_file.exists
           /\ pc' = "done") =>
                \/ input_file.size > config.max_file_size_mb * 1024 * 1024
                \/ input_file.size < config.min_file_size_kb * 1024
       /\ (/\ pc = "post"
           /\ apply_result.success
           /\ output_file.exists
           /\ SavingsEqual(original_size, output_file.size,
                           config.min_compression_percent)) => Kept]_vars

C26_Witness ==
    /\ pc = "done"
    /\ input_before.size = config.max_file_size_mb * 1024 * 1024
    /\ Len(attempts) >= 1
    /\ result.success
    /\ output_file.content = "compressed"
    /\ result.size_after = output_file.size
    /\ SavingsEqual(result.size_before, result.size_after,
                    config.min_compression_percent)

\* C27: in every result with success=true and size fields that compress()
\* returns, bytes_saved is size_before - size_after, and size_after is at
\* most size_before whenever min_compression_percent is not negative.
C27_SavingsAreConsistent ==
    HasSavings =>
        /\ result.bytes_saved = result.size_before - result.size_after
        /\ config.min_compression_percent >= 0 =>
               result.size_after <= result.size_before

\* C28: compress() never invokes an external tool that available_tools marks
\* unavailable: the ghostscript adapter runs only if
\* available_tools["ghostscript"] is true and the qpdf adapter only if
\* available_tools["qpdf"] is true, as the chosen backend and as a fallback.
C28_OnlyAvailableToolsRun ==
    \A i \in 1..Len(attempts) :
        attempts[i].backend \in {"ghostscript", "qpdf"} =>
            available_tools[attempts[i].backend]

C28_Witness ==
    /\ pc = "done"
    /\ Len(attempts) = 2
    /\ attempts[1].backend = "ghostscript"
    /\ ~available_tools["qpdf"]

\* the size of an existing input has been read
SizeRead == pc \in {"choose", "apply", "post"}

\* at most two backends have run, the second one being pikepdf after a
\* first one other than pikepdf raised
AtMostTwoAttempts ==
    /\ Len(attempts) <= 2
    /\ Len(attempts) = 2 =>
           /\ attempts[1].backend # "pikepdf"
           /\ attempts[1].outcome = "raised"
           /\ attempts[2].backend = "pikepdf"

\* C29: once the input exists and its size has been read, every compress()
\* call terminates by returning a result and never raises; it makes at most
\* two backend attempts, the chosen backend plus a single pikepdf attempt
\* only when a chosen backend other than pikepdf raised; an exception
\* escaping the backends or the post-processing becomes a success=false
\* result.
C29_CompressTerminates ==
    /\ SizeRead ~> (pc = "done" /\ result.success \in BOOLEAN)
    /\ [](pc \in {"idle", "check", "choose", "apply", "post", "done"})
    /\ []AtMostTwoAttempts

C29_Witness ==
    /\ pc = "done"
    /\ Len(attempts) = 2
    /\ attempts[2].outcome = "success"
    /\ ~result.success
    /\ ErrorContains("OSError")

\* the order of the steps of _process_single_file and of the loop around it
DriverOrder ==
    {<<"init", "next">>, <<"next", "download">>, <<"next", "end">>,
     <<"download", "backup">>, <<"backup", "compress">>,
     <<"compress", "compressing">>, <<"compressing", "verify">>,
     <<"verify", "upload">>, <<"upload", "delete">>, <<"delete", "record">>,
     <<"record", "finally">>, <<"except", "finally">>, <<"finally", "next">>}
    \cup {<<s, "except">> : s \in {"download", "compressing", "verify", "upload"}}

Failures ==
    {"Download error", "Compression error", "KeyError",
     "Compressed file is corrupt", "Upload error"}

====
